---- MODULE Spec2Model ----
(***************************************************************************)
(* Model of readflag.c: a setuid helper that opens /root/flag.txt, copies  *)
(* it to standard output one character at a time and closes it.            *)
(*                                                                         *)
(* One action per statement of main().  The environment (the file at the   *)
(* fixed path, whether it can be opened, and whether the compiler's plain  *)
(* char is signed) is chosen in Init and never changes afterwards.  The    *)
(* program may be invoked again after it has terminated (Invoke), which    *)
(* starts a fresh process against the same file.                           *)
(*                                                                         *)
(* Standard output is modelled at the level of the C stream: `out' is the  *)
(* sequence of bytes handed to stdout by printf, in order.                 *)
(***************************************************************************)
EXTENDS Integers, Sequences, FiniteSets, TLC

\* ---------------------------------------------------------------- bounds
MaxLen == 3          \* longest file content explored
MaxExtraReads == 2   \* reads explored beyond the (length + 1)-th
MaxRuns == 2         \* invocations of the program against the same file

\* Representative byte values: both ends of the range, the sign boundary
\* of an 8-bit char, and an ordinary printable character.
Bytes == {0, 65, 127, 128, 254, 255}

\* `char ch;' is uninitialised: its first value is indeterminate.
GarbageChars == {0, 65}

\* ------------------------------------------------------- program constants
EOF == -1
EXIT_FAILURE == 1
file_name == "/root/flag.txt"

VARIABLES
  file,        \* content of the file at file_name (sequence of bytes)
  fileState,   \* "missing" | "unreadable" | "readable"
  charSigned,  \* TRUE iff plain char is signed in this build
  pc,          \* statement about to execute
  fp,          \* "uninit" | "NULL" | "stream"
  streamOpen,  \* TRUE while the FILE behind fp is open
  pos,         \* file position of the stream
  ioErr,       \* error indicator of the stream (a read has failed)
  ch,          \* the char variable
  out,         \* bytes written to standard output
  err,         \* messages written to standard error
  exitStatus,  \* -1 while running, else the process's exit status
  opens,       \* paths passed to fopen, in order
  nRead,       \* calls of fgetc
  nClose,      \* calls of fclose
  run,         \* number of the current invocation
  prevOut,     \* standard output of the previous invocation
  prevExit,    \* exit status of the previous invocation
  prevIoErr    \* whether a read failed in the previous invocation

envVars == <<file, fileState, charSigned>>
histVars == <<run, prevOut, prevExit, prevIoErr>>
vars == <<file, fileState, charSigned, pc, fp, streamOpen, pos, ioErr, ch,
          out, err, exitStatus, opens, nRead, nClose, run, prevOut,
          prevExit, prevIoErr>>

\* ------------------------------------------------------------ pure helpers
Files == UNION {[1..n -> Bytes] : n \in 0..MaxLen}

\* Conversion of an int to plain char (8 bits), as gcc does it: modulo 2^8,
\* into -128..127 when char is signed and into 0..255 when it is unsigned.
\* (ToCharInt is what the conversion would be had ch been declared int.)
ToCharInt(v) == v

ToChar(v) ==
  IF charSigned THEN ((v + 128) % 256) - 128 ELSE v % 256

\* printf("%c", c): the int argument is converted to unsigned char.
ToUnsignedChar(c) == c % 256

\* What fgetc returns on a stream at position p: the next byte as an
\* unsigned char converted to int, or EOF at end of file or on a failed read.
FgetcResult(p, fails) ==
  IF fails THEN EOF
  ELSE IF p < Len(file) THEN file[p + 1] ELSE EOF

\* errno left by a failed fopen.
OpenErrno == IF fileState = "missing" THEN "ENOENT" ELSE "EACCES"

IsPrefix(s, t) == Len(s) <= Len(t) /\ SubSeq(t, 1, Len(s)) = s

\* Longest prefix of s that contains no byte 0xFF.
PrefixBeforeFF(s) ==
  LET stops == {i \in 1..Len(s) : s[i] = 255}
      n == IF stops = {} THEN Len(s)
           ELSE (CHOOSE i \in stops : \A j \in stops : i <= j) - 1
  IN SubSeq(s, 1, n)

\* ------------------------------------------------------------------- Init
Init ==
  /\ file \in Files
  /\ fileState \in {"missing", "unreadable", "readable"}
  /\ charSigned \in BOOLEAN
  /\ pc = "fopen"
  /\ fp = "uninit"
  /\ streamOpen = FALSE
  /\ pos = 0
  /\ ioErr = FALSE
  /\ ch \in GarbageChars
  /\ out = <<>>
  /\ err = <<>>
  /\ exitStatus = -1
  /\ opens = <<>>
  /\ nRead = 0
  /\ nClose = 0
  /\ run = 1
  /\ prevOut = <<>>
  /\ prevExit = -1
  /\ prevIoErr = FALSE

\* ---------------------------------------------------------------- actions
\* line 15: fp = fopen(file_name, "r");
Fopen ==
  /\ pc = "fopen"
  /\ opens' = Append(opens, file_name)
  /\ IF fileState = "readable"
       THEN fp' = "stream" /\ streamOpen' = TRUE
       ELSE fp' = "NULL" /\ streamOpen' = FALSE
  /\ pos' = 0
  /\ pc' = "check"
  /\ UNCHANGED <<ioErr, ch, out, err, exitStatus, nRead, nClose>>
  /\ UNCHANGED envVars
  /\ UNCHANGED histVars

\* line 17: if (fp == NULL)
\* (CheckNullDoWhile enters the loop body before the first read, as a
\* do-while would, printing the indeterminate ch.)
CheckNullDoWhile ==
  /\ pc = "check"
  /\ pc' = IF fp = "NULL" THEN "perror" ELSE "printf"
  /\ UNCHANGED <<fp, streamOpen, pos, ioErr, ch, out, err, exitStatus,
                 opens, nRead, nClose>>
  /\ UNCHANGED envVars
  /\ UNCHANGED histVars

CheckNull ==
  /\ pc = "check"
  /\ pc' = IF fp = "NULL" THEN "perror" ELSE "loop"
  /\ UNCHANGED <<fp, streamOpen, pos, ioErr, ch, out, err, exitStatus,
                 opens, nRead, nClose>>
  /\ UNCHANGED envVars
  /\ UNCHANGED histVars

\* line 19: perror("Error while opening the file.\n");
Perror ==
  /\ pc = "perror"
  /\ err' = Append(err, <<"Error while opening the file.\n", OpenErrno>>)
  /\ pc' = "exit"
  /\ UNCHANGED <<fp, streamOpen, pos, ioErr, ch, out, exitStatus, opens,
                 nRead, nClose>>
  /\ UNCHANGED envVars
  /\ UNCHANGED histVars

\* line 20: exit(EXIT_FAILURE);
\* (ExitSuccess is the same statement with status 0.)
ExitSuccess ==
  /\ pc = "exit"
  /\ exitStatus' = 0
  /\ pc' = "done"
  /\ UNCHANGED <<fp, streamOpen, pos, ioErr, ch, out, err, opens, nRead,
                 nClose>>
  /\ UNCHANGED envVars
  /\ UNCHANGED histVars

ExitFailure ==
  /\ pc = "exit"
  /\ exitStatus' = EXIT_FAILURE
  /\ pc' = "done"
  /\ UNCHANGED <<fp, streamOpen, pos, ioErr, ch, out, err, opens, nRead,
                 nClose>>
  /\ UNCHANGED envVars
  /\ UNCHANGED histVars

\* line 23: while ((ch = fgetc(fp)) != EOF)
\* The int returned by fgetc is narrowed to char, and that char (promoted
\* back to int) is what is compared with EOF.
Fgetc ==
  /\ pc = "loop"
  /\ nRead < Len(file) + 1 + MaxExtraReads
  /\ \E fails \in BOOLEAN :
       LET r == FgetcResult(pos, fails)
           c == ToChar(r)
       IN /\ ch' = c
          /\ pos' = IF ~fails /\ pos < Len(file) THEN pos + 1 ELSE pos
          /\ ioErr' = (ioErr \/ fails)
          /\ pc' = IF c # EOF THEN "printf" ELSE "fclose"
  /\ nRead' = nRead + 1
  /\ UNCHANGED <<fp, streamOpen, out, err, exitStatus, opens, nClose>>
  /\ UNCHANGED envVars
  /\ UNCHANGED histVars

\* line 24: printf("%c", ch);
Printf ==
  /\ pc = "printf"
  /\ out' = Append(out, ToUnsignedChar(ch))
  /\ pc' = "loop"
  /\ UNCHANGED <<fp, streamOpen, pos, ioErr, ch, err, exitStatus, opens,
                 nRead, nClose>>
  /\ UNCHANGED envVars
  /\ UNCHANGED histVars

\* line 26: fclose(fp);
\* (FcloseLeak is the program with the fclose call left out.)
FcloseLeak ==
  /\ pc = "fclose"
  /\ pc' = "return"
  /\ UNCHANGED <<fp, streamOpen, pos, ioErr, ch, out, err, exitStatus,
                 opens, nRead, nClose>>
  /\ UNCHANGED envVars
  /\ UNCHANGED histVars

Fclose ==
  /\ pc = "fclose"
  /\ streamOpen' = FALSE
  /\ nClose' = nClose + 1
  /\ pc' = "return"
  /\ UNCHANGED <<fp, pos, ioErr, ch, out, err, exitStatus, opens, nRead>>
  /\ UNCHANGED envVars
  /\ UNCHANGED histVars

\* line 27: return 0;
\* (ReturnChecked is a return that reports a failed read through the status.)
ReturnChecked ==
  /\ pc = "return"
  /\ exitStatus' = IF ioErr THEN EXIT_FAILURE ELSE 0
  /\ pc' = "done"
  /\ UNCHANGED <<fp, streamOpen, pos, ioErr, ch, out, err, opens, nRead,
                 nClose>>
  /\ UNCHANGED envVars
  /\ UNCHANGED histVars

Return ==
  /\ pc = "return"
  /\ exitStatus' = 0
  /\ pc' = "done"
  /\ UNCHANGED <<fp, streamOpen, pos, ioErr, ch, out, err, opens, nRead,
                 nClose>>
  /\ UNCHANGED envVars
  /\ UNCHANGED histVars

\* The program is run again: a new process starts at main() (line 9) with
\* nothing carried over from the previous one; the file is unchanged.
Invoke ==
  /\ pc = "done"
  /\ run < MaxRuns
  /\ run' = run + 1
  /\ prevOut' = out
  /\ prevExit' = exitStatus
  /\ prevIoErr' = ioErr
  /\ pc' = "fopen"
  /\ fp' = "uninit"
  /\ streamOpen' = FALSE
  /\ pos' = 0
  /\ ioErr' = FALSE
  /\ ch' \in GarbageChars
  /\ out' = <<>>
  /\ err' = <<>>
  /\ exitStatus' = -1
  /\ opens' = <<>>
  /\ nRead' = 0
  /\ nClose' = 0
  /\ UNCHANGED envVars

Next ==
  \/ Fopen
  \/ CheckNull
  \/ Perror
  \/ ExitFailure
  \/ Fgetc
  \/ Printf
  \/ Fclose
  \/ Return
  \/ Invoke

Spec == Init /\ [][Next]_vars

TypeOK ==
  /\ file \in Files
  /\ pc \in {"fopen", "check", "perror", "exit", "loop", "printf",
             "fclose", "return", "done"}
  /\ fp \in {"uninit", "NULL", "stream"}
  /\ pos \in 0..Len(file)
  /\ ch \in -128..255
  /\ exitStatus \in {-1, 0, EXIT_FAILURE}
  /\ run \in 1..MaxRuns

openOk == fp = "stream"
terminated == pc = "done"

\* ================================================================= claims

\* C1 (as stated): whenever the open succeeded and the run has ended, the
\* exit status is 0 and standard output is exactly the file's bytes.  Runs
\* in which a read failed are left out, so that a violation is one the
\* program produces on a healthy file.
C1_ExactCopy ==
  (terminated /\ openOk /\ ~ioErr) => (exitStatus = 0 /\ out = file)

\* C2: when the open fails, nothing is ever written to standard output, no
\* read and no close is issued, fopen is called once only, and the run
\* ends with one message on standard error and a non-zero exit status.
C2_OpenFailure ==
  /\ Len(opens) <= 1
  /\ (fileState # "readable" /\ pc # "fopen") => fp = "NULL"
  /\ fp = "NULL" =>
       /\ out = <<>>
       /\ nRead = 0
       /\ nClose = 0
       /\ opens = <<file_name>>
       /\ terminated =>
            /\ exitStatus # 0
            /\ Len(err) = 1
            /\ err[1][1] = "Error while opening the file.\n"

C2_Witness ==
  terminated /\ fp = "NULL" /\ exitStatus = EXIT_FAILURE /\ err # <<>>

\* C3: at termination the exit status is non-zero exactly when the open
\* failed; after a successful open nothing is ever written to standard
\* error and the run ends with status 0, also when a read has failed.
C3_ExitStatus ==
  /\ openOk => err = <<>>
  /\ terminated =>
       /\ (exitStatus # 0) <=> (fp = "NULL")
       /\ openOk => exitStatus = 0

C3_Witness ==
  /\ terminated /\ openOk /\ ioErr /\ exitStatus = 0
  /\ 0 < Len(out) /\ Len(out) < Len(file)

C5_EmptyFile ==
  (fileState = "readable" /\ file = <<>>) =>
    /\ out = <<>>
    /\ pc # "printf"
    /\ terminated => (~streamOpen /\ nClose = 1 /\ exitStatus = 0)

C7_ReadBound == nRead <= Len(file) + 1

\* C8 (as stated): once the loop has been left after a successful open
\* with no read error, every byte of the file has been consumed.
C8_StopsOnlyAtEOF ==
  (pc \in {"fclose", "return", "done"} /\ openOk /\ ~ioErr) =>
    pos = Len(file)

\* C9 (as stated): the bytes written so far are a prefix of the file, and
\* the bytes read are at most one ahead of the bytes written.
C9_Alternate ==
  /\ IsPrefix(out, file)
  /\ Len(out) <= pos
  /\ pos <= Len(out) + 1

====
